---- MODULE Spec2Model ----
(***************************************************************************)
(* Model of the two services of the repository:                            *)
(*   - the URL shortener (app/models.py, app/utils.py, app/main.py):       *)
(*     URLStore with its lock, the heap of URLMapping objects it refers    *)
(*     to, and the three HTTP handlers, run by worker threads;             *)
(*   - the user management API (messy-migration/app_refactored.py):        *)
(*     the users table, UserService and the HTTP handlers, each database   *)
(*     call one atomic statement on its own connection.                    *)
(* Strings that the code inspects are sequences: URLs are sequences of     *)
(* lexical tokens of the pattern of is_valid_url, user fields are          *)
(* sequences of characters.                                                *)
(***************************************************************************)
EXTENDS Integers, Sequences, FiniteSets, TLC

VARIABLES mappings, heap, lock, clock, th, out, budget, incDone, adds, firstUrl, hits
VARIABLES users, nextId, uth, uout, ubudget, created

urlVars == <<mappings, heap, lock, clock, th, out, budget, incDone, adds, firstUrl, hits>>
userVars == <<users, nextId, uth, uout, ubudget, created>>


(* ------------------------------ bounds -------------------------------- *)
NThreads == 2
MaxReqs == 3
MaxSeqReqs == 5
MaxSerialReqs == 3
MaxUserReqs == 3
MaxUserSeqReqs == 5
MaxValidateReqs == 2
MaxLiveReqs == 2

Threads == 1..NThreads

(* ----------------------- values of the URL service --------------------- *)
\* Optional[URLMapping]: references are heap indices, 0 is None
NoRef == 0
\* threading.Lock: 0 is "unlocked", otherwise the holder
NoThread == 0

\* codes generate_short_code can return (6 characters of [A-Za-z0-9])
GenCodes == {"aB3xZ9", "Qw7eR1"}
\* a path segment that is never generated (tests use /nonexistent)
AllCodes == GenCodes \cup {"nonexistent"}

SchemePrefixes == {"http://", "https://"}
SchemeTokens == {"http://", "https://", "HTTP://", "HTTPS://"}
HostTokens == {"example.com", "localhost", "127.0.0.1"}
PortTokens == {":5000"}
PathTokens == {"/", "/a", "?q=1"}
Blank == " "

\* url values a client may send, as token sequences
UrlInputs == { <<"example.com", "/a">>, <<Blank, "http://", "localhost", ":5000", Blank>>, <<"not-a-url">>, <<>> }

\* str.strip()
RECURSIVE lstrip(_)
lstrip(s) == IF s # <<>> /\ Head(s) = Blank THEN lstrip(Tail(s)) ELSE s

RECURSIVE rstrip(_)
rstrip(s) == IF s # <<>> /\ s[Len(s)] = Blank THEN rstrip(SubSeq(s, 1, Len(s) - 1)) ELSE s

strip(s) == rstrip(lstrip(s))

sanitize_url(url) == IF url # <<>> /\ url[1] \in SchemePrefixes THEN url ELSE <<"https://">> \o url

\* the pattern of is_valid_url on the tokens after scheme and host
ValidTail(rest) ==
  \/ rest = <<>>
  \/ Len(rest) = 1 /\ rest[1] \in PortTokens \cup PathTokens
  \/ Len(rest) = 2 /\ rest[1] \in PortTokens /\ rest[2] \in PathTokens

is_valid_url(url) ==
  /\ url # <<>>
  /\ Len(url) >= 2
  /\ url[1] \in SchemeTokens
  /\ url[2] \in HostTokens
  /\ ValidTail(SubSeq(url, 3, Len(url)))

format_timestamp(timestamp) == <<"isoformat", timestamp>>

\* request bodies of POST /api/shorten
Body(is_json, parses, empty, has_url, type, val) == [is_json |-> is_json, parses |-> parses, empty |-> empty, has_url |-> has_url, type |-> type, val |-> val]
NoBody == Body(FALSE, FALSE, TRUE, FALSE, "null", <<>>)
Bodies ==
  {Body(FALSE, FALSE, TRUE, FALSE, "null", <<>>), Body(TRUE, FALSE, TRUE, FALSE, "null", <<>>), Body(TRUE, TRUE, TRUE, FALSE, "null", <<>>), Body(TRUE, TRUE, FALSE, FALSE, "null", <<>>), Body(TRUE, TRUE, FALSE, TRUE, "number", <<>>)}
  \cup {Body(TRUE, TRUE, FALSE, TRUE, "string", u) : u \in UrlInputs}

\* responses
Resp(status, error, short_code, url, clicks, created_at) == [status |-> status, error |-> error, short_code |-> short_code, url |-> url, clicks |-> clicks, created_at |-> created_at]
NoResp == Resp(0, "", "", <<>>, 0, <<>>)
ErrorResp(status, msg) == Resp(status, msg, "", <<>>, 0, <<>>)

URLMapping(original_url, short_code, created_at) == [original_url |-> original_url, short_code |-> short_code, created_at |-> created_at, clicks |-> 0]

NoSnap == [c \in AllCodes |-> NoRef]
NoRec == [original_url |-> <<>>, short_code |-> "", created_at |-> 0, clicks |-> 0]
NoSnapX == [c \in AllCodes |-> NoRec]

IdleThread == [pc |-> "idle", t |-> NoThread, req |-> "none", code |-> "", had |-> FALSE, url |-> <<>>, body |-> NoBody, hmap |-> NoRef, m |-> NoRef, tmp |-> 0, ret |-> NoRef, ok |-> FALSE, snap |-> NoSnap, snapX |-> NoSnapX, resp |-> NoResp, wrote |-> FALSE]

UrlInitWith(n) ==
  /\ mappings = [c \in AllCodes |-> NoRef]
  /\ heap = <<>>
  /\ lock = NoThread
  /\ clock = 1
  /\ th = [t \in Threads |-> IdleThread]
  /\ out = IdleThread
  /\ budget = n
  /\ incDone = <<>>
  /\ adds = [c \in AllCodes |-> 0]
  /\ firstUrl = [c \in AllCodes |-> <<>>]
  /\ hits = [c \in AllCodes |-> 0]

Min(a, b) == IF a < b THEN a ELSE b

(* ------------------------- thread bookkeeping -------------------------- *)
\* thread t continues as rec; wrote records whether any step of its current
\* request changed the dictionary or a record. A request that has returned
\* (pc "done") leaves its result in out and frees the thread.
Upd(t, rec) ==
  LET r == [rec EXCEPT !.wrote = rec.wrote \/ mappings' # mappings \/ heap' # heap]
  IN  /\ UNCHANGED userVars
      /\ IF r.pc = "done"
         THEN th' = [th EXCEPT ![t] = IdleThread] /\ out' = [r EXCEPT !.t = NoThread, !.url = <<>>]
         ELSE th' = [th EXCEPT ![t] = r] /\ out' = out

CanStart(t) == th[t].pc = "idle" /\ budget > 0

\* had: the code was in the store when the request began
Begin(t, request, short_code, pc0) == [IdleThread EXCEPT !.pc = pc0, !.t = t, !.req = request, !.code = short_code, !.had = (short_code \in AllCodes /\ mappings[short_code] # NoRef)]

NoteAdd(short_code, original_url) ==
  /\ adds' = [adds EXCEPT ![short_code] = Min(@ + 1, 2)]
  /\ firstUrl' = IF adds[short_code] = 0 THEN [firstUrl EXCEPT ![short_code] = original_url] ELSE firstUrl

NoteHit(short_code) == hits' = IF adds[short_code] > 0 THEN [hits EXCEPT ![short_code] = @ + 1] ELSE hits

(* ------------------------------ URLStore ------------------------------- *)
LockFreeBroken == TRUE

\* with self._lock: the lock can be taken
LockFree == lock = NoThread

LockPcs == {"add_lock", "get_lock", "inc_lock", "all_lock"}
BodyPc(p) == CASE p = "add_lock" -> "add_body" [] p = "get_lock" -> "get_body" [] p = "inc_lock" -> "inc_body" [] OTHER -> "all_body"

Acquire(t) ==
  /\ th[t].pc \in LockPcs
  /\ LockFree
  /\ lock' = t
  /\ UNCHANGED <<mappings, heap, clock, budget, incDone, adds, firstUrl, hits>>
  /\ Upd(t, [th[t] EXCEPT !.pc = BodyPc(th[t].pc)])

NewMappingKeepClicks(short_code, original_url, ts) == [URLMapping(original_url, short_code, ts) EXCEPT !.clicks = IF mappings[short_code] # NoRef THEN heap[mappings[short_code]].clicks ELSE 0]

\* mapping = URLMapping(original_url=..., short_code=..., created_at=time.time())
NewMapping(short_code, original_url, ts) == URLMapping(original_url, short_code, ts)

StoreMappingReset(short_code, ref) == [c \in AllCodes |-> IF c = short_code THEN ref ELSE NoRef]

\* self._mappings[short_code] = mapping
StoreMapping(short_code, ref) == [mappings EXCEPT ![short_code] = ref]

AddBody(t) ==
  /\ th[t].pc = "add_body"
  /\ clock' = clock + 1
  /\ heap' = Append(heap, NewMapping(th[t].code, th[t].url, clock))
  /\ mappings' = StoreMapping(th[t].code, Len(heap) + 1)
  /\ incDone' = Append(incDone, 0)
  /\ UNCHANGED <<lock, budget, adds, firstUrl, hits>>
  /\ Upd(t, [th[t] EXCEPT !.pc = "add_unlock", !.ret = Len(heap) + 1])

ShortUrl(short_code) == <<"http://localhost:5000/", short_code>>

AddReturnKeepsLock(t) ==
  /\ th[t].pc = "add_unlock"
  /\ UNCHANGED <<mappings, heap, lock, clock, budget, incDone, adds, firstUrl, hits>>
  /\ Upd(t, IF th[t].req = "shorten"
            THEN [th[t] EXCEPT !.pc = "done", !.ret = NoRef, !.resp = Resp(201, "", th[t].code, ShortUrl(th[t].code), 0, <<>>)]
            ELSE [th[t] EXCEPT !.pc = "done"])

AddReturn(t) ==
  /\ th[t].pc = "add_unlock"
  /\ lock' = NoThread
  /\ UNCHANGED <<mappings, heap, clock, budget, incDone, adds, firstUrl, hits>>
  /\ Upd(t, IF th[t].req = "shorten"
            THEN [th[t] EXCEPT !.pc = "done", !.ret = NoRef, !.resp = Resp(201, "", th[t].code, ShortUrl(th[t].code), 0, <<>>)]
            ELSE [th[t] EXCEPT !.pc = "done"])

DictGetFallback(short_code) == IF mappings[short_code] = NoRef /\ heap # <<>> THEN 1 ELSE mappings[short_code]

\* self._mappings.get(short_code)
DictGet(short_code) == mappings[short_code]

NotFound == ErrorResp(404, "Short code not found")

GetBody(t) ==
  /\ th[t].pc = "get_body"
  /\ UNCHANGED <<mappings, heap, lock, clock, budget, incDone, adds, firstUrl, hits>>
  /\ Upd(t, [th[t] EXCEPT !.pc = "get_unlock", !.ret = DictGet(th[t].code)])

GetReturn(t) ==
  /\ th[t].pc = "get_unlock"
  /\ lock' = NoThread
  /\ IF th[t].req = "redirect" /\ th[t].ret = NoRef THEN NoteHit(th[t].code) ELSE UNCHANGED hits
  /\ UNCHANGED <<mappings, heap, clock, budget, incDone, adds, firstUrl>>
  /\ Upd(t, CASE th[t].req = "get" -> [th[t] EXCEPT !.pc = "done"]
              [] th[t].req = "redirect" /\ th[t].ret = NoRef -> [th[t] EXCEPT !.pc = "done", !.resp = NotFound]
              [] th[t].req = "redirect" /\ th[t].ret # NoRef -> [th[t] EXCEPT !.pc = "inc_lock", !.hmap = th[t].ret, !.ret = NoRef]
              [] th[t].req = "stats" /\ th[t].ret = NoRef -> [th[t] EXCEPT !.pc = "done", !.resp = NotFound]
              [] OTHER -> [th[t] EXCEPT !.pc = "st_read", !.hmap = th[t].ret, !.ret = NoRef])

IncLookup(t) ==
  /\ th[t].pc = "inc_body"
  /\ UNCHANGED <<mappings, heap, lock, clock, budget, incDone, adds, firstUrl, hits>>
  /\ Upd(t, IF DictGet(th[t].code) # NoRef
            THEN [th[t] EXCEPT !.pc = "inc_read", !.m = DictGet(th[t].code)]
            ELSE [th[t] EXCEPT !.pc = "inc_unlock", !.m = NoRef, !.ok = FALSE])

IncRead(t) ==
  /\ th[t].pc = "inc_read"
  /\ UNCHANGED <<mappings, heap, lock, clock, budget, incDone, adds, firstUrl, hits>>
  /\ Upd(t, [th[t] EXCEPT !.pc = "inc_write", !.tmp = heap[th[t].m].clicks])

ClicksUnchanged(clicks) == clicks

\* mapping.clicks += 1
ClicksPlusOne(clicks) == clicks + 1

IncWrite(t) ==
  /\ th[t].pc = "inc_write"
  /\ heap' = [heap EXCEPT ![th[t].m].clicks = ClicksPlusOne(th[t].tmp)]
  /\ UNCHANGED <<mappings, lock, clock, budget, incDone, adds, firstUrl, hits>>
  /\ Upd(t, [th[t] EXCEPT !.pc = "inc_unlock", !.ok = TRUE])

IncReturn(t) ==
  /\ th[t].pc = "inc_unlock"
  /\ lock' = NoThread
  /\ incDone' = IF th[t].ok THEN [incDone EXCEPT ![th[t].m] = @ + 1] ELSE incDone
  /\ IF th[t].req = "redirect" THEN NoteHit(th[t].code) ELSE UNCHANGED hits
  /\ UNCHANGED <<mappings, heap, clock, budget, adds, firstUrl>>
  /\ Upd(t, IF th[t].req = "redirect"
            THEN [th[t] EXCEPT !.pc = "done", !.m = NoRef, !.tmp = 0, !.ok = FALSE, !.hmap = NoRef, !.resp = Resp(302, "", "", heap[th[t].hmap].original_url, 0, <<>>)]
            ELSE [th[t] EXCEPT !.pc = "done", !.m = NoRef, !.tmp = 0])

SnapshotValues(d) == [c \in AllCodes |-> IF d[c] # NoRef THEN heap[d[c]] ELSE NoRec]

\* self._mappings.copy()
DictCopy == mappings

AllBody(t) ==
  /\ th[t].pc = "all_body"
  /\ UNCHANGED <<mappings, heap, lock, clock, budget, incDone, adds, firstUrl, hits>>
  /\ Upd(t, [th[t] EXCEPT !.pc = "all_unlock", !.snap = DictCopy, !.snapX = SnapshotValues(DictCopy)])

AllReturn(t) ==
  /\ th[t].pc = "all_unlock"
  /\ lock' = NoThread
  /\ UNCHANGED <<mappings, heap, clock, budget, incDone, adds, firstUrl, hits>>
  /\ Upd(t, [th[t] EXCEPT !.pc = "done"])

(* ------------------------- direct store callers ------------------------ *)
CallAdd(t, short_code, original_url) ==
  /\ CanStart(t)
  /\ budget' = budget - 1
  /\ NoteAdd(short_code, original_url)
  /\ UNCHANGED <<mappings, heap, lock, clock, incDone, hits>>
  /\ Upd(t, [Begin(t, "add", short_code, "add_lock") EXCEPT !.url = original_url])

CallGet(t, short_code) ==
  /\ CanStart(t)
  /\ budget' = budget - 1
  /\ UNCHANGED <<mappings, heap, lock, clock, incDone, adds, firstUrl, hits>>
  /\ Upd(t, Begin(t, "get", short_code, "get_lock"))

CallInc(t, short_code) ==
  /\ CanStart(t)
  /\ budget' = budget - 1
  /\ UNCHANGED <<mappings, heap, lock, clock, incDone, adds, firstUrl, hits>>
  /\ Upd(t, Begin(t, "inc", short_code, "inc_lock"))

CallAll(t) ==
  /\ CanStart(t)
  /\ budget' = budget - 1
  /\ UNCHANGED <<mappings, heap, lock, clock, incDone, adds, firstUrl, hits>>
  /\ Upd(t, Begin(t, "all", "", "all_lock"))

(* ---------------------------- HTTP handlers ---------------------------- *)
\* shorten_url up to generate_short_code: the response it ends with, or 201
ShortenOutcome(body) ==
  IF ~body.is_json THEN ErrorResp(400, "Content-Type must be application/json")
  ELSE IF ~body.parses THEN ErrorResp(400, "Invalid JSON in request body")
  ELSE IF body.empty \/ ~body.has_url THEN ErrorResp(400, "URL is required in request body")
  ELSE IF body.type # "string" THEN ErrorResp(500, "Internal server error")
  ELSE IF ~is_valid_url(sanitize_url(strip(body.val))) THEN ErrorResp(400, "Invalid URL provided")
  ELSE Resp(201, "", "", sanitize_url(strip(body.val)), 0, <<>>)

ReqShortenReject(t, body) ==
  /\ CanStart(t)
  /\ ShortenOutcome(body).status # 201
  /\ budget' = budget - 1
  /\ UNCHANGED <<mappings, heap, lock, clock, incDone, adds, firstUrl, hits>>
  /\ Upd(t, [Begin(t, "shorten", "", "done") EXCEPT !.body = body, !.resp = ShortenOutcome(body)])

ReqShortenAccept(t, body, short_code) ==
  /\ CanStart(t)
  /\ ShortenOutcome(body).status = 201
  /\ budget' = budget - 1
  /\ NoteAdd(short_code, ShortenOutcome(body).url)
  /\ UNCHANGED <<mappings, heap, lock, clock, incDone, hits>>
  /\ Upd(t, [Begin(t, "shorten", short_code, "add_lock") EXCEPT !.body = body, !.url = ShortenOutcome(body).url])

ReqRedirect(t, short_code) ==
  /\ CanStart(t)
  /\ budget' = budget - 1
  /\ UNCHANGED <<mappings, heap, lock, clock, incDone, adds, firstUrl, hits>>
  /\ Upd(t, Begin(t, "redirect", short_code, "get_lock"))

ReqStats(t, short_code) ==
  /\ CanStart(t)
  /\ budget' = budget - 1
  /\ UNCHANGED <<mappings, heap, lock, clock, incDone, adds, firstUrl, hits>>
  /\ Upd(t, Begin(t, "stats", short_code, "get_lock"))

StatsRead(t) ==
  /\ th[t].pc = "st_read"
  /\ UNCHANGED <<mappings, heap, lock, clock, budget, incDone, adds, firstUrl, hits>>
  /\ Upd(t, [th[t] EXCEPT !.pc = "done", !.hmap = NoRef, !.resp = Resp(200, "", "", heap[th[t].hmap].original_url, heap[th[t].hmap].clicks, format_timestamp(heap[th[t].hmap].created_at))])

(* ===================== user management service ======================= *)
\* user fields are sequences of characters
Letters == {"a", "b", "i", "l", "o", "x", "A", "B"}
Digits == {"1", "2"}
LocalChars == Letters \cup Digits \cup {".", "_", "%", "+", "-"}
DomainChars == Letters \cup Digits \cup {".", "-"}

\* re.match(r'^[a-zA-Z0-9._%+-]+@[a-zA-Z0-9.-]+\.[a-zA-Z]{2,}$', email)
EmailShape(s) ==
  \E i, j \in 1..Len(s) :
    /\ 1 < i /\ i + 1 < j /\ j + 1 < Len(s)
    /\ s[i] = "@" /\ s[j] = "."
    /\ \A k \in 1..(i - 1) : s[k] \in LocalChars
    /\ \A k \in (i + 1)..(j - 1) : s[k] \in DomainChars
    /\ \A k \in (j + 1)..Len(s) : s[k] \in Letters

validate_email(email) == EmailShape(email) \/ (email # <<>> /\ email[Len(email)] = "\n" /\ EmailShape(SubSeq(email, 1, Len(email) - 1)))

validate_password(password) == Len(password) >= 6

validate_name(name) == Len(strip(name)) >= 2

Payload(has, name, email, password) == [has |-> has, name |-> name, email |-> email, password |-> password]
NoPayload == Payload({}, <<>>, <<>>, <<>>)

RECURSIVE MissingField(_, _)
\* for field in required_fields: if field not in data or not data[field]
MissingField(data, required) ==
  IF required = <<>> THEN ""
  ELSE IF Head(required) \notin data.has \/ data[Head(required)] = <<>> THEN Head(required)
  ELSE MissingField(data, Tail(required))

validate_user_data_name_first(data, required) ==
  IF MissingField(data, required) # "" THEN <<FALSE, <<"Missing required field: ", MissingField(data, required)>>>>
  ELSE IF "name" \in data.has /\ ~validate_name(data.name) THEN <<FALSE, <<"Name must be at least 2 characters long">>>>
  ELSE IF ~validate_email(data.email) THEN <<FALSE, <<"Invalid email format">>>>
  ELSE IF "password" \in data.has /\ ~validate_password(data.password) THEN <<FALSE, <<"Password must be at least 6 characters long">>>>
  ELSE <<TRUE, <<>>>>

validate_user_data(data, required) ==
  IF MissingField(data, required) # "" THEN <<FALSE, <<"Missing required field: ", MissingField(data, required)>>>>
  ELSE IF ~validate_email(data.email) THEN <<FALSE, <<"Invalid email format">>>>
  ELSE IF "password" \in data.has /\ ~validate_password(data.password) THEN <<FALSE, <<"Password must be at least 6 characters long">>>>
  ELSE IF "name" \in data.has /\ ~validate_name(data.name) THEN <<FALSE, <<"Name must be at least 2 characters long">>>>
  ELSE <<TRUE, <<>>>>

\* hashlib.sha256(password.encode()).hexdigest()
hash_password(password) == <<"sha256">> \o password

\* Optional[int]: 0 is None (no row id is 0)
NoId == 0

User(id, name, email, password_hash) == [id |-> id, name |-> name, email |-> email, password |-> password_hash]

SetMin(S) == CHOOSE x \in S : \A y \in S : x <= y
SetMax(S) == CHOOSE x \in S : \A y \in S : x >= y

\* SELECT id FROM users WHERE email = ?  followed by result[0][0] / None;
\* the table is scanned in id order
FirstIdByEmail(email) == IF \E u \in users : u.email = email THEN SetMin({u.id : u \in {v \in users : v.email = email}}) ELSE NoId

\* ids the table may give to an inserted row: one past the largest id in
\* the table, or one past the largest id ever assigned
NewIds == {nextId} \cup {IF users = {} THEN 1 ELSE SetMax({u.id : u \in users}) + 1}

UResp(status, message, id, name, email) == [status |-> status, message |-> message, id |-> id, name |-> name, email |-> email]
NoUResp == UResp(0, <<>>, NoId, <<>>, <<>>)
UError(status, message) == UResp(status, message, NoId, <<>>, <<>>)

IdleUser == [pc |-> "idle", req |-> "none", data |-> NoPayload, user_id |-> NoId, ins |-> NoId, resp |-> NoUResp]

\* a request that has answered (pc "done") leaves its result in uout;
\* created collects the ids inserted by POST /users requests that answered 201
UUpd(t, rec) ==
  /\ UNCHANGED urlVars
  /\ created' = IF rec.pc = "done" /\ rec.req = "create" /\ rec.resp.status = 201 THEN created \cup {rec.ins} ELSE created
  /\ IF rec.pc = "done"
     THEN uth' = [uth EXCEPT ![t] = IdleUser] /\ uout' = rec
     ELSE uth' = [uth EXCEPT ![t] = rec] /\ uout' = uout

UCanStart(t) == uth[t].pc = "idle" /\ ubudget > 0

UBegin(request, data, user_id, pc0) == [IdleUser EXCEPT !.pc = pc0, !.req = request, !.data = data, !.user_id = user_id]

\* POST /users: validation fails
PostUsersReject(t, data) ==
  /\ UCanStart(t)
  /\ ~validate_user_data(data, <<"name", "email", "password">>)[1]
  /\ ubudget' = ubudget - 1
  /\ UNCHANGED <<users, nextId>>
  /\ UUpd(t, [UBegin("create", data, NoId, "done") EXCEPT !.resp = UError(400, validate_user_data(data, <<"name", "email", "password">>)[2])])

PostUsersBegin(t, data) ==
  /\ UCanStart(t)
  /\ validate_user_data(data, <<"name", "email", "password">>)[1]
  /\ ubudget' = ubudget - 1
  /\ UNCHANGED <<users, nextId>>
  /\ UUpd(t, UBegin("create", data, NoId, "c_check"))

CreateCheckSkipped(t) ==
  /\ uth[t].pc = "c_check"
  /\ UNCHANGED <<users, nextId, ubudget>>
  /\ UUpd(t, [uth[t] EXCEPT !.pc = "c_insert"])

\* existing = db_manager.execute_query("SELECT id FROM users WHERE email = ?")
CreateCheck(t) ==
  /\ uth[t].pc = "c_check"
  /\ UNCHANGED <<users, nextId, ubudget>>
  /\ UUpd(t, IF \E u \in users : u.email = uth[t].data.email
             THEN [uth[t] EXCEPT !.pc = "done", !.resp = UError(409, <<"User with this email already exists">>)]
             ELSE [uth[t] EXCEPT !.pc = "c_insert"])

CreateInsertUnique(t) ==
  /\ uth[t].pc = "c_insert"
  /\ IF \E u \in users : u.email = uth[t].data.email
     THEN /\ UNCHANGED <<users, nextId, ubudget>>
          /\ UUpd(t, [uth[t] EXCEPT !.pc = "done", !.resp = UError(500, <<"Internal server error">>)])
     ELSE \E id \in NewIds :
            /\ users' = users \cup {User(id, uth[t].data.name, uth[t].data.email, hash_password(uth[t].data.password))}
            /\ nextId' = IF id >= nextId THEN id + 1 ELSE nextId
            /\ UNCHANGED ubudget
            /\ UUpd(t, [uth[t] EXCEPT !.pc = "c_select", !.ins = id])

\* UserService.create_user: INSERT INTO users (name, email, password)
CreateInsert(t) ==
  /\ uth[t].pc = "c_insert"
  /\ \E id \in NewIds :
       /\ users' = users \cup {User(id, uth[t].data.name, uth[t].data.email, hash_password(uth[t].data.password))}
       /\ nextId' = IF id >= nextId THEN id + 1 ELSE nextId
       /\ UNCHANGED ubudget
       /\ UUpd(t, [uth[t] EXCEPT !.pc = "c_select", !.ins = id])

\* UserService.create_user: SELECT id FROM users WHERE email = ?, then 201
CreateSelect(t) ==
  /\ uth[t].pc = "c_select"
  /\ UNCHANGED <<users, nextId, ubudget>>
  /\ UUpd(t, [uth[t] EXCEPT !.pc = "done", !.resp = UResp(201, <<>>, FirstIdByEmail(uth[t].data.email), uth[t].data.name, uth[t].data.email)])

\* PUT /user/<id>
PutUserReject(t, user_id, data) ==
  /\ UCanStart(t)
  /\ ~validate_user_data(data, <<"name", "email">>)[1]
  /\ ubudget' = ubudget - 1
  /\ UNCHANGED <<users, nextId>>
  /\ UUpd(t, [UBegin("update", data, user_id, "done") EXCEPT !.resp = UError(400, validate_user_data(data, <<"name", "email">>)[2])])

PutUserBegin(t, user_id, data) ==
  /\ UCanStart(t)
  /\ validate_user_data(data, <<"name", "email">>)[1]
  /\ ubudget' = ubudget - 1
  /\ UNCHANGED <<users, nextId>>
  /\ UUpd(t, UBegin("update", data, user_id, "u_get"))

\* get_user_by_id(user_id) in update_user and delete_user
GetForWrite(t) ==
  /\ uth[t].pc \in {"u_get", "d_get"}
  /\ UNCHANGED <<users, nextId, ubudget>>
  /\ UUpd(t, IF ~\E u \in users : u.id = uth[t].user_id
             THEN [uth[t] EXCEPT !.pc = "done", !.resp = UError(404, <<"User not found">>)]
             ELSE [uth[t] EXCEPT !.pc = IF uth[t].pc = "u_get" THEN "u_email" ELSE "d_delete"])

\* SELECT id FROM users WHERE email = ? AND id != ?
PutEmailCheck(t) ==
  /\ uth[t].pc = "u_email"
  /\ UNCHANGED <<users, nextId, ubudget>>
  /\ UUpd(t, IF \E u \in users : u.email = uth[t].data.email /\ u.id # uth[t].user_id
             THEN [uth[t] EXCEPT !.pc = "done", !.resp = UError(409, <<"Email already taken by another user">>)]
             ELSE [uth[t] EXCEPT !.pc = "u_update"])

PutUpdateEveryRow(t) ==
  /\ uth[t].pc = "u_update"
  /\ users' = {[u EXCEPT !.name = uth[t].data.name, !.email = uth[t].data.email] : u \in users}
  /\ UNCHANGED <<nextId, ubudget>>
  /\ UUpd(t, IF \E u \in users : u.id = uth[t].user_id
             THEN [uth[t] EXCEPT !.pc = "done", !.resp = UResp(200, <<>>, uth[t].user_id, uth[t].data.name, uth[t].data.email)]
             ELSE [uth[t] EXCEPT !.pc = "done", !.resp = UError(500, <<"Failed to update user">>)])

\* UPDATE users SET name = ?, email = ? WHERE id = ?
PutUpdate(t) ==
  /\ uth[t].pc = "u_update"
  /\ users' = {IF u.id = uth[t].user_id THEN [u EXCEPT !.name = uth[t].data.name, !.email = uth[t].data.email] ELSE u : u \in users}
  /\ UNCHANGED <<nextId, ubudget>>
  /\ UUpd(t, IF \E u \in users : u.id = uth[t].user_id
             THEN [uth[t] EXCEPT !.pc = "done", !.resp = UResp(200, <<>>, uth[t].user_id, uth[t].data.name, uth[t].data.email)]
             ELSE [uth[t] EXCEPT !.pc = "done", !.resp = UError(500, <<"Failed to update user">>)])

\* DELETE /user/<id>
DeleteUserBegin(t, user_id) ==
  /\ UCanStart(t)
  /\ ubudget' = ubudget - 1
  /\ UNCHANGED <<users, nextId>>
  /\ UUpd(t, UBegin("delete", NoPayload, user_id, "d_get"))

DeleteRowKept(t) ==
  /\ uth[t].pc = "d_delete"
  /\ UNCHANGED <<users, nextId, ubudget>>
  /\ UUpd(t, [uth[t] EXCEPT !.pc = "done", !.resp = UResp(200, <<"User deleted successfully">>, NoId, <<>>, <<>>)])

\* DELETE FROM users WHERE id = ?
DeleteRow(t) ==
  /\ uth[t].pc = "d_delete"
  /\ users' = {u \in users : u.id # uth[t].user_id}
  /\ UNCHANGED <<nextId, ubudget>>
  /\ UUpd(t, IF \E u \in users : u.id = uth[t].user_id
             THEN [uth[t] EXCEPT !.pc = "done", !.resp = UResp(200, <<"User deleted successfully">>, NoId, <<>>, <<>>)]
             ELSE [uth[t] EXCEPT !.pc = "done", !.resp = UError(500, <<"Failed to delete user">>)])

\* GET /user/<id>: one SELECT, then 200 or 404
GetUser(t, user_id) ==
  /\ UCanStart(t)
  /\ ubudget' = ubudget - 1
  /\ UNCHANGED <<users, nextId>>
  /\ UUpd(t, IF \E u \in users : u.id = user_id
             THEN LET row == CHOOSE u \in users : u.id = user_id
                  IN  [UBegin("get", NoPayload, user_id, "done") EXCEPT !.resp = UResp(200, <<>>, row.id, row.name, row.email)]
             ELSE [UBegin("get", NoPayload, user_id, "done") EXCEPT !.resp = UError(404, <<"User not found">>)])

authenticate_by_email(email, password) == IF \E u \in users : u.email = email THEN SetMin({u.id : u \in {v \in users : v.email = email}}) ELSE NoId

\* SELECT id FROM users WHERE email = ? AND password = ?  followed by
\* result[0][0] / None
authenticate_user(email, password) ==
  LET hit == {u \in users : u.email = email /\ u.password = hash_password(password)}
  IN  IF hit = {} THEN NoId ELSE SetMin({u.id : u \in hit})

\* POST /login: field checks, then one SELECT
LoginOutcome(data) ==
  IF "email" \notin data.has \/ "password" \notin data.has THEN UError(400, <<"Email and password are required">>)
  ELSE IF ~validate_email(data.email) THEN UError(400, <<"Invalid email format">>)
  ELSE IF authenticate_user(data.email, data.password) # NoId THEN UResp(200, <<"Login successful">>, authenticate_user(data.email, data.password), <<>>, <<>>)
  ELSE UError(401, <<"Invalid email or password">>)

Login(t, data) ==
  /\ UCanStart(t)
  /\ ubudget' = ubudget - 1
  /\ UNCHANGED <<users, nextId>>
  /\ UUpd(t, [UBegin("login", data, NoId, "done") EXCEPT !.resp = LoginOutcome(data)])

UserInitWith(n) ==
  /\ users = {}
  /\ nextId = 1
  /\ uth = [t \in Threads |-> IdleUser]
  /\ uout = IdleUser
  /\ ubudget = n
  /\ created = {}

\* request inputs
Al == <<"A", "l">>
Bo == <<"B", "o">>
MailA == <<"a", "@", "x", ".", "i", "o">>
MailB == <<"b", "@", "x", ".", "i", "o">>
Secret == <<"a", "b", "1", "2", "a", "b">>
Other == <<"x", "x", "1", "2", "x", "x">>
CreatePayloads == {Payload({"name", "email", "password"}, Al, MailA, Secret), Payload({"name", "email", "password"}, Al, MailB, Other)} \cup {Payload({"name", "email", "password"}, <<"A">>, <<"b", "a", "d">>, Secret)}
UpdatePayloads == {Payload({"name", "email"}, Bo, e, <<>>) : e \in {MailA, MailB}} \cup {Payload({"name", "email"}, <<Blank, "A", Blank>>, MailA, <<>>)}
PathIds == {1, 2}
LoginPayloads == {Payload({"email", "password"}, <<>>, e, p) : e \in {MailA, MailB}, p \in {Secret, Other}} \cup {Payload({"email"}, <<>>, MailA, <<>>), Payload({"email", "password"}, <<>>, <<"b", "a", "d">>, Secret)}

(* --------------------------- specifications ---------------------------- *)
vars == <<mappings, heap, lock, clock, th, out, budget, incDone, adds, firstUrl, hits, users, nextId, uth, uout, ubudget, created>>

ValidUrls == {sanitize_url(strip(x)) : x \in {y \in UrlInputs : is_valid_url(sanitize_url(strip(y)))}}

\* Spec: worker threads calling the four URLStore methods concurrently
Init == UrlInitWith(MaxReqs) /\ UserInitWith(0)

Next ==
  \/ \E t \in Threads, c \in GenCodes, u \in ValidUrls : CallAdd(t, c, u)
  \/ \E t \in Threads, c \in AllCodes : CallGet(t, c)
  \/ \E t \in Threads, c \in AllCodes : CallInc(t, c)
  \/ \E t \in Threads : CallAll(t)
  \/ \E t \in Threads : Acquire(t)
  \/ \E t \in Threads : AddBody(t)
  \/ \E t \in Threads : AddReturn(t)
  \/ \E t \in Threads : GetBody(t)
  \/ \E t \in Threads : GetReturn(t)
  \/ \E t \in Threads : IncLookup(t)
  \/ \E t \in Threads : IncRead(t)
  \/ \E t \in Threads : IncWrite(t)
  \/ \E t \in Threads : IncReturn(t)
  \/ \E t \in Threads : AllBody(t)
  \/ \E t \in Threads : AllReturn(t)

Spec == Init /\ [][Next]_vars

\* LiveSpec: the same calls; the scheduler keeps running every thread that
\* can take a step
Step(t) ==
  \/ Acquire(t)
  \/ AddBody(t)
  \/ AddReturn(t)
  \/ GetBody(t)
  \/ GetReturn(t)
  \/ IncLookup(t)
  \/ IncRead(t)
  \/ IncWrite(t)
  \/ IncReturn(t)
  \/ AllBody(t)
  \/ AllReturn(t)

LiveInit == UrlInitWith(MaxLiveReqs) /\ UserInitWith(0)

LiveSpec == LiveInit /\ [][Next]_vars /\ \A t \in Threads : WF_vars(Step(t))

\* HttpSpec: worker threads serving HTTP requests concurrently
HttpInit == UrlInitWith(MaxReqs) /\ UserInitWith(0) /\ UserInitWith(0)

HttpNext ==
  \/ \E t \in Threads, b \in Bodies : ReqShortenReject(t, b)
  \/ \E t \in Threads, b \in Bodies, c \in GenCodes : ReqShortenAccept(t, b, c)
  \/ \E t \in Threads, c \in AllCodes : ReqRedirect(t, c)
  \/ \E t \in Threads, c \in AllCodes : ReqStats(t, c)
  \/ \E t \in Threads : Acquire(t)
  \/ \E t \in Threads : AddBody(t)
  \/ \E t \in Threads : AddReturn(t)
  \/ \E t \in Threads : GetBody(t)
  \/ \E t \in Threads : GetReturn(t)
  \/ \E t \in Threads : IncLookup(t)
  \/ \E t \in Threads : IncRead(t)
  \/ \E t \in Threads : IncWrite(t)
  \/ \E t \in Threads : IncReturn(t)
  \/ \E t \in Threads : StatsRead(t)

HttpSpec == HttpInit /\ [][HttpNext]_vars

\* SeqSpec: HTTP requests handled one at a time, by a single worker
SeqThreads == {1}

SeqInit == UrlInitWith(MaxSeqReqs) /\ UserInitWith(0)

SeqNext ==
  \/ \E t \in SeqThreads, b \in Bodies : ReqShortenReject(t, b)
  \/ \E t \in SeqThreads, b \in Bodies, c \in GenCodes : ReqShortenAccept(t, b, c)
  \/ \E t \in SeqThreads, c \in AllCodes : ReqRedirect(t, c)
  \/ \E t \in SeqThreads, c \in AllCodes : ReqStats(t, c)
  \/ \E t \in SeqThreads : Acquire(t)
  \/ \E t \in SeqThreads : AddBody(t)
  \/ \E t \in SeqThreads : AddReturn(t)
  \/ \E t \in SeqThreads : GetBody(t)
  \/ \E t \in SeqThreads : GetReturn(t)
  \/ \E t \in SeqThreads : IncLookup(t)
  \/ \E t \in SeqThreads : IncRead(t)
  \/ \E t \in SeqThreads : IncWrite(t)
  \/ \E t \in SeqThreads : IncReturn(t)
  \/ \E t \in SeqThreads : StatsRead(t)

SeqSpec == SeqInit /\ [][SeqNext]_vars

\* SerialSpec: a single worker running store calls and HTTP requests one
\* after the other
SerialInit == UrlInitWith(MaxSerialReqs) /\ UserInitWith(0)

SerialNext ==
  \/ \E t \in SeqThreads, c \in GenCodes, u \in ValidUrls : CallAdd(t, c, u)
  \/ \E t \in SeqThreads, c \in AllCodes : CallGet(t, c)
  \/ \E t \in SeqThreads, c \in AllCodes : CallInc(t, c)
  \/ \E t \in SeqThreads : CallAll(t)
  \/ \E t \in SeqThreads, b \in Bodies : ReqShortenReject(t, b)
  \/ \E t \in SeqThreads, b \in Bodies, c \in GenCodes : ReqShortenAccept(t, b, c)
  \/ \E t \in SeqThreads, c \in AllCodes : ReqRedirect(t, c)
  \/ \E t \in SeqThreads, c \in AllCodes : ReqStats(t, c)
  \/ \E t \in Threads : Acquire(t)
  \/ \E t \in Threads : AddBody(t)
  \/ \E t \in Threads : AddReturn(t)
  \/ \E t \in Threads : GetBody(t)
  \/ \E t \in Threads : GetReturn(t)
  \/ \E t \in Threads : IncLookup(t)
  \/ \E t \in Threads : IncRead(t)
  \/ \E t \in Threads : IncWrite(t)
  \/ \E t \in Threads : IncReturn(t)
  \/ \E t \in Threads : AllBody(t)
  \/ \E t \in Threads : AllReturn(t)
  \/ \E t \in Threads : StatsRead(t)

SerialSpec == SerialInit /\ [][SerialNext]_vars

\* UserSpec: worker threads serving user-API requests concurrently
UserInit == UrlInitWith(0) /\ UserInitWith(MaxUserReqs)

UserNext ==
  \/ \E t \in Threads, d \in CreatePayloads : PostUsersReject(t, d)
  \/ \E t \in Threads, d \in CreatePayloads : PostUsersBegin(t, d)
  \/ \E t \in Threads : CreateCheck(t)
  \/ \E t \in Threads : CreateInsert(t)
  \/ \E t \in Threads : CreateSelect(t)
  \/ \E t \in Threads, id \in PathIds, d \in UpdatePayloads : PutUserReject(t, id, d)
  \/ \E t \in Threads, id \in PathIds, d \in UpdatePayloads : PutUserBegin(t, id, d)
  \/ \E t \in Threads : GetForWrite(t)
  \/ \E t \in Threads : PutEmailCheck(t)
  \/ \E t \in Threads : PutUpdate(t)
  \/ \E t \in Threads, id \in PathIds : DeleteUserBegin(t, id)
  \/ \E t \in Threads : DeleteRow(t)

UserSpec == UserInit /\ [][UserNext]_vars

\* ValidateSpec: POST /users and PUT /user/<id> bodies drawn from every
\* combination of absent, empty, malformed and well-formed fields, handled
\* one at a time
Absent == <<"absent">>
FieldValues(name) == IF name = "name" THEN {Absent, <<>>, <<"A">>, <<Blank, "A", Blank>>, Al}
                     ELSE IF name = "email" THEN {Absent, <<>>, <<"b", "a", "d">>, MailA}
                     ELSE {Absent, <<>>, <<"a", "b", "1">>, Secret}
Given(v) == IF v = Absent THEN <<>> ELSE v
AnyPayloads == {Payload({f \in {"name", "email", "password"} : (CASE f = "name" -> n [] f = "email" -> e [] OTHER -> p) # Absent}, Given(n), Given(e), Given(p)) : n \in FieldValues("name"), e \in FieldValues("email"), p \in FieldValues("password")}

ValidateInit == UrlInitWith(0) /\ UserInitWith(MaxValidateReqs)

ValidateNext ==
  \/ \E t \in SeqThreads, d \in AnyPayloads : PostUsersReject(t, d)
  \/ \E t \in SeqThreads, d \in AnyPayloads : PostUsersBegin(t, d)
  \/ \E t \in SeqThreads : CreateCheck(t)
  \/ \E t \in SeqThreads : CreateInsert(t)
  \/ \E t \in SeqThreads : CreateSelect(t)
  \/ \E t \in SeqThreads, id \in PathIds, d \in AnyPayloads : PutUserReject(t, id, d)
  \/ \E t \in SeqThreads, id \in PathIds, d \in AnyPayloads : PutUserBegin(t, id, d)
  \/ \E t \in SeqThreads : GetForWrite(t)
  \/ \E t \in SeqThreads : PutEmailCheck(t)
  \/ \E t \in SeqThreads : PutUpdate(t)

ValidateSpec == ValidateInit /\ [][ValidateNext]_vars

\* UserSeqSpec: user-API requests handled one at a time, by a single worker
UserSeqInit == UrlInitWith(0) /\ UserInitWith(MaxUserSeqReqs)

UserSeqNext ==
  \/ \E t \in SeqThreads, d \in CreatePayloads : PostUsersReject(t, d)
  \/ \E t \in SeqThreads, d \in CreatePayloads : PostUsersBegin(t, d)
  \/ \E t \in SeqThreads : CreateCheck(t)
  \/ \E t \in SeqThreads : CreateInsert(t)
  \/ \E t \in SeqThreads : CreateSelect(t)
  \/ \E t \in SeqThreads, id \in PathIds, d \in UpdatePayloads : PutUserReject(t, id, d)
  \/ \E t \in SeqThreads, id \in PathIds, d \in UpdatePayloads : PutUserBegin(t, id, d)
  \/ \E t \in SeqThreads : GetForWrite(t)
  \/ \E t \in SeqThreads : PutEmailCheck(t)
  \/ \E t \in SeqThreads : PutUpdate(t)
  \/ \E t \in SeqThreads, id \in PathIds : DeleteUserBegin(t, id)
  \/ \E t \in SeqThreads : DeleteRow(t)
  \/ \E t \in SeqThreads, id \in PathIds : GetUser(t, id)
  \/ \E t \in SeqThreads, d \in LoginPayloads : Login(t, d)

UserSeqSpec == UserSeqInit /\ [][UserSeqNext]_vars

(* ------------------------------- claims -------------------------------- *)
Refs == 1..Len(heap)
InFlight(t) == th[t].pc # "idle"

\* C1: increment_clicks is atomic. Every record's clicks equals the number
\* of increment_clicks calls that returned true on it (plus the calls that
\* have written and not yet returned), so k concurrent calls add exactly k;
\* and a call on a code that was in the store when it began returns true.
C1_AtomicIncrement ==
  /\ \A r \in Refs : heap[r].clicks = incDone[r] + Cardinality({t \in Threads : th[t].pc = "inc_unlock" /\ th[t].ok /\ th[t].m = r})
  /\ (out.req = "inc" /\ out.had => out.ok)

C1_Witness == \E t, u \in Threads : t # u /\ th[t].pc = "inc_unlock" /\ th[t].ok /\ heap[th[t].m].clicks = 1 /\ th[u].pc = "inc_lock" /\ th[u].code = th[t].code

\* C2: the dictionary returned by get_all_mappings is a point-in-time copy:
\* every record read through it still has the fields it had when the copy
\* was taken.
C2_SnapshotIsolated == out.req = "all" => \A c \in AllCodes : out.snap[c] # NoRef => heap[out.snap[c]] = out.snapX[c]

\* C3: the four store operations are serialized by one lock. A thread
\* inside a store method's critical section holds the lock, and no other
\* thread is inside a critical section at the same time.
CriticalPcs == {"add_body", "add_unlock", "get_body", "get_unlock", "inc_body", "inc_read", "inc_write", "inc_unlock", "all_body", "all_unlock"}
InCritical(t) == th[t].pc \in CriticalPcs

C3_MutualExclusion == \A t \in Threads : InCritical(t) => lock = t /\ \A u \in Threads \ {t} : ~InCritical(u)

C3_Witness == \E t, u \in Threads : t # u /\ th[t].pc = "inc_write" /\ th[u].pc \in LockPcs /\ lock = t

\* C4: add_mapping(c, u) inserts or overwrites. The step that stores the
\* record makes c refer to a fresh record with url u, code c and 0 clicks
\* and leaves every other code's entry and record as it was; when the call
\* returns, c still refers to the returned record.
C4_AddOverwrites ==
  [][\A t \in Threads :
       /\ (th[t].pc = "add_body" /\ th'[t].pc = "add_unlock") =>
            /\ mappings'[th[t].code] = th'[t].ret
            /\ th'[t].ret \notin Refs
            /\ heap'[th'[t].ret].original_url = th[t].url
            /\ heap'[th'[t].ret].short_code = th[t].code
            /\ heap'[th'[t].ret].clicks = 0
            /\ \A d \in AllCodes \ {th[t].code} : mappings'[d] = mappings[d]
            /\ \A r \in Refs : heap'[r] = heap[r]
       /\ (th[t].pc = "add_unlock" /\ th'[t].pc = "idle") =>
            /\ mappings'[th[t].code] = th[t].ret
            /\ heap'[th[t].ret].original_url = th[t].url
            /\ heap'[th[t].ret].clicks = 0]_vars

C4_Witness == \E t \in Threads, r \in Refs : th[t].pc = "add_unlock" /\ r # th[t].ret /\ heap[r].short_code = th[t].code /\ heap[r].clicks >= 1 /\ heap[r].original_url # th[t].url

\* C5: add_mapping calls with pairwise distinct codes, run in parallel, are
\* all retrievable afterwards. A code that was added exactly once, by a call
\* that has returned, refers to a record with the URL passed for it, and
\* a get_mapping that began once the code was stored returns that record.
AddReturned(c) == \A t \in Threads : ~(InFlight(t) /\ th[t].req \in {"add", "shorten"} /\ th[t].code = c)

C5_ParallelAdds ==
  /\ \A c \in GenCodes : adds[c] = 1 /\ AddReturned(c) =>
       /\ mappings[c] # NoRef
       /\ heap[mappings[c]].original_url = firstUrl[c]
       /\ heap[mappings[c]].short_code = c
  /\ (out.req = "get" /\ adds[out.code] = 1 /\ out.had) => (out.ret # NoRef /\ out.ret = mappings[out.code] /\ heap[out.ret].original_url = firstUrl[out.code])

C5_Witness == (\A c \in GenCodes : adds[c] = 1 /\ AddReturned(c)) /\ out.req = "get" /\ out.had /\ out.ret # NoRef /\ \E c, d \in GenCodes : firstUrl[c] # firstUrl[d]

\* C6: shorten / redirect / stats round trip, requests one at a time, no
\* collision. For a code handed out once, every GET /c that began after
\* the shorten answered 201 answers 302 with the sanitized URL of the
\* shorten request, and GET /api/stats/c answers 200 with that URL and
\* clicks equal to the number of GET /c completed since the shorten.
C6_RoundTrip ==
  /\ (out.req = "redirect" /\ adds[out.code] = 1 /\ out.had) => (out.resp.status = 302 /\ out.resp.url = firstUrl[out.code])
  /\ (out.req = "stats" /\ adds[out.code] = 1 /\ out.had) => (out.resp.status = 200 /\ out.resp.url = firstUrl[out.code] /\ out.resp.clicks = hits[out.code])
  /\ (out.req = "shorten" /\ out.resp.status = 201 /\ adds[out.code] = 1) => (firstUrl[out.code] = sanitize_url(strip(out.body.val)) /\ mappings[out.code] # NoRef /\ hits[out.code] = 0)

C6_Witness == out.req = "stats" /\ adds[out.code] = 1 /\ out.resp.status = 200 /\ out.resp.clicks = 3 /\ out.resp.url = <<"https://", "example.com", "/a">>

\* C7 as stated: the click count reported for a code never decreases.
Reported(c) == IF mappings[c] = NoRef THEN 0 ELSE heap[mappings[c]].clicks

C7_ReportedNeverDecreases == [][\A c \in AllCodes : Reported(c)' >= Reported(c)]_vars

\* C7 amended: the clicks of a record never decrease; a record starts at 0
\* and grows by one per redirect served; the count reported for a code
\* decreases only when a shorten overwrites the code's entry, and then it
\* is 0.
C7_RecordClicksMonotone ==
  [][/\ \A r \in Refs : heap'[r].clicks \in {heap[r].clicks, heap[r].clicks + 1}
     /\ \A r \in Refs : heap'[r].clicks # heap[r].clicks => \E t \in Threads : th[t].req = "redirect" /\ th[t].pc = "inc_write" /\ th[t].m = r /\ th'[t].pc = "inc_unlock"
     /\ \A r \in (1..Len(heap')) \ Refs : heap'[r].clicks = 0
     /\ \A c \in AllCodes : Reported(c)' < Reported(c) => (mappings'[c] \notin Refs /\ Reported(c)' = 0 /\ \E t \in Threads : th[t].req = "shorten" /\ th[t].code = c)]_vars

C7_Witness == \E c \in GenCodes, r \in Refs : adds[c] = 2 /\ mappings[c] # NoRef /\ r # mappings[c] /\ heap[r].short_code = c /\ heap[r].clicks >= 1 /\ Reported(c) = 0

\* C8: a POST /api/shorten whose body is not JSON, is unparsable, has no
\* url field, or whose url value (of any JSON type) is not a valid URL
\* after sanitize_url is answered 400 with an error body and adds nothing.
InvalidShortenBody(b) == ~b.is_json \/ ~b.parses \/ ~b.has_url \/ b.type # "string" \/ ~is_valid_url(sanitize_url(strip(b.val)))

C8_InvalidShortenIs400 == (out.req = "shorten" /\ InvalidShortenBody(out.body)) => (out.resp.status = 400 /\ out.resp.error # "" /\ ~out.wrote)

\* C9: operations on a code that is not in the store report absence and
\* change nothing: get_mapping returns None, increment_clicks returns
\* False, GET /c and GET /api/stats/c answer 404 with an error body, and
\* no step of the operation changed the dictionary or a record.
C9_AbsentCode ==
  (out.req \in {"get", "inc", "redirect", "stats"} /\ ~out.had) =>
     /\ ~out.wrote
     /\ out.req = "get" => out.ret = NoRef
     /\ out.req = "inc" => out.ok = FALSE
     /\ out.req \in {"redirect", "stats"} => (out.resp.status = 404 /\ out.resp.error # "")

C9_Witness == out.req = "redirect" /\ ~out.had /\ out.resp.status = 404 /\ Len(heap) >= 1 /\ \E r \in Refs : heap[r].clicks >= 1

\* C10: create_user returns the newly assigned identifier. The id in the
\* 201 answer of POST /users is the id of the row this call inserted,
\* never another row's id and never None.
C10_CreateReturnsOwnId == (uout.req = "create" /\ uout.resp.status = 201) => (uout.resp.id = uout.ins /\ uout.resp.id # NoId)

(* ----------------------- user service, one request at a time ----------- *)
EmailHeld(email) == \E u \in users : u.email = email
EmailHeldByOther(email, id) == \E u \in users : u.email = email /\ u.id # id
UniqueEmails == \A u, v \in users : u.email = v.email => u = v

\* the step in which worker t leaves program point pc
Leaves(t, pc) == uth[t].pc = pc /\ uth'[t].pc # pc
Answers(t, req, status) == uth'[t].pc = "idle" /\ uout'.req = req /\ uout'.resp.status = status

C11_CheckSteps ==
  \A t \in SeqThreads :
    /\ Leaves(t, "c_check") =>
         /\ EmailHeld(uth[t].data.email) <=> Answers(t, "create", 409)
         /\ EmailHeld(uth[t].data.email) => users' = users
    /\ Leaves(t, "u_email") =>
         /\ EmailHeldByOther(uth[t].data.email, uth[t].user_id) <=> Answers(t, "update", 409)
         /\ EmailHeldByOther(uth[t].data.email, uth[t].user_id) => users' = users

\* C11: with requests handled one at a time, POST /users with an email a row
\* already holds answers 409 and inserts nothing, PUT /user/<id> with an email
\* a different row holds answers 409 and changes nothing, and no reachable
\* users table has two rows with the same email.
C11_EmailUnique == [](UniqueEmails) /\ [][C11_CheckSteps]_vars

C11_Witness == uout.req = "update" /\ uout.resp.status = 409 /\ Cardinality(users) = 2 /\ UniqueEmails

HasRow(id) == \E u \in users : u.id = id
Ids(rows) == {u.id : u \in rows}
\* the step that serves a whole GET /user/<id>
ServesGet == ubudget' # ubudget /\ uout'.req = "get"

C12_DeleteSteps ==
  /\ \A t \in SeqThreads :
       /\ Leaves(t, "d_get") =>
            /\ users' = users
            /\ ~HasRow(uth[t].user_id) <=> Answers(t, "delete", 404)
            /\ (uout.req = "delete" /\ uout.resp.status = 200 /\ uout.user_id = uth[t].user_id) => Answers(t, "delete", 404)
       /\ Leaves(t, "d_delete") =>
            /\ HasRow(uth[t].user_id)
            /\ Answers(t, "delete", 200)
            /\ users' = {u \in users : u.id # uth[t].user_id}
            /\ users' # users
       /\ Answers(t, "delete", 200) => Leaves(t, "d_delete")
       /\ Leaves(t, "c_insert") \/ Ids(users') \subseteq Ids(users)
  /\ ServesGet =>
       /\ users' = users
       /\ ~HasRow(uout'.user_id) <=> uout'.resp.status = 404
       /\ (uout.req = "delete" /\ uout.resp.status = 200 /\ uout.user_id = uout'.user_id) => uout'.resp.status = 404

\* C12: with requests handled one at a time, DELETE /user/<id> answers 200
\* exactly when a row with that id existed and the request removed it, and
\* 404 with the table unchanged when there is none; a DELETE or GET that
\* follows a DELETE answered 200 for the same id answers 404, an id without
\* a row always answers 404, and only an INSERT gives an id a row.
C12_DeleteTwice == [][C12_DeleteSteps]_vars

C12_Witness == uout.req = "delete" /\ uout.resp.status = 404 /\ uout.user_id < nextId /\ ~HasRow(uout.user_id) /\ users # {}

\* the step that serves a whole POST /login
ServesLogin == ubudget' # ubudget /\ uout'.req = "login"
MatchingIn(rows, email, password) == {u \in rows : u.email = email /\ u.password = hash_password(password)}
Matching(email, password) == MatchingIn(users, email, password)

C13_LoginSteps ==
  /\ (ServesLogin /\ uout'.data.has = {"email", "password"} /\ validate_email(uout'.data.email)) =>
       /\ users' = users
       /\ uout'.resp.status \in {200, 401}
       /\ uout'.resp.status = 401 <=> Matching(uout'.data.email, uout'.data.password) = {}
       /\ uout'.resp.status = 200 => uout'.resp.id \in Ids(Matching(uout'.data.email, uout'.data.password))
  /\ \A u \in users, v \in users' : u.id = v.id => u.password = v.password
  /\ \A t \in SeqThreads :
       /\ Leaves(t, "c_insert") => \E v \in users' \ users : v.email = uth[t].data.email /\ v.password = hash_password(uth[t].data.password)
       /\ (Leaves(t, "u_update") /\ Answers(t, "update", 200)) =>
            /\ \A p \in {Secret, Other} : uth[t].user_id \in Ids(MatchingIn(users', uth[t].data.email, p)) <=> \E u \in users : u.id = uth[t].user_id /\ u.password = hash_password(p)
            /\ \A u \in users' : u.id = uth[t].user_id => u.email = uth[t].data.email
       /\ (Leaves(t, "d_delete") /\ Answers(t, "delete", 200)) => \A p \in {Secret, Other}, e \in {MailA, MailB} : uth[t].user_id \notin Ids(MatchingIn(users', e, p))

\* C13: with requests handled one at a time, POST /login with a well-formed
\* email e and a password p answers 200 with the id of a row whose email is e
\* and whose hash is hash_password(p), and 401 exactly when there is no such
\* row; a row keeps the hash of the password it was created with, a PUT moves
\* it to the new email, and a deleted row matches no login.
C13_Login == [][C13_LoginSteps]_vars

C13_Witness == uout.req = "login" /\ uout.resp.status = 200 /\ \E u \in users : u.id = uout.resp.id /\ u.name = Bo /\ u.password = hash_password(Other) /\ u.email = MailA

(* --------------------------- request validation ------------------------ *)
Lacks(data, field) == field \notin data.has \/ data[field] = <<>>
TooShortName(data) == "name" \in data.has /\ \A i, j \in 1..Len(data.name) : (i < j) => (data.name[i] = Blank \/ data.name[j] = Blank)
TooShortPassword(data) == "password" \in data.has /\ Len(data.password) < 6
Malformed(email) == ~\E i \in 2..Len(email) : email[i] = "@" /\ \E j \in (i + 2)..(Len(email) - 2) : email[j] = "."

\* the first failure of a body, in the order the claim gives
FirstFailure(data, req) ==
  IF Lacks(data, "name") THEN <<"Missing required field: ", "name">>
  ELSE IF Lacks(data, "email") THEN <<"Missing required field: ", "email">>
  ELSE IF req = "create" /\ Lacks(data, "password") THEN <<"Missing required field: ", "password">>
  ELSE IF Malformed(data.email) THEN <<"Invalid email format">>
  ELSE IF TooShortPassword(data) THEN <<"Password must be at least 6 characters long">>
  ELSE IF TooShortName(data) THEN <<"Name must be at least 2 characters long">>
  ELSE <<>>

C14_Answered ==
  uout.req \in {"create", "update"} =>
    /\ uout.resp.status = 400 <=> FirstFailure(uout.data, uout.req) # <<>>
    /\ uout.resp.status = 400 => uout.resp.message = FirstFailure(uout.data, uout.req)

C14_Rejected == \A t \in SeqThreads : (uth'[t].pc = "idle" /\ uout' # uout /\ uout'.resp.status = 400) => (users' = users /\ uth[t].pc = "idle")

\* C14: validate_user_data reports the first failure in a fixed order: a
\* missing or empty required field (in the order of the required list), then
\* a malformed email, then a too-short password if one is present, then a
\* too-short name; POST /users and PUT /user/<id> answer 400 with that
\* message, before any statement runs and with the users table unchanged, and
\* answer something else only when nothing fails.
C14_FirstFailure == [](C14_Answered) /\ [][C14_Rejected]_vars

C14_Witness == uout.req = "create" /\ uout.resp.status = 400 /\ uout.resp.message = <<"Invalid email format">> /\ uout.data.name = <<"A">> /\ uout.data.email = <<"b", "a", "d">> /\ users # {}

(* ----------------------- user service, concurrent requests ------------- *)
C15_PutSteps ==
  \A t \in Threads :
    /\ Leaves(t, "u_get") =>
         /\ users' = users
         /\ ~HasRow(uth[t].user_id) <=> Answers(t, "update", 404)
    /\ (uth[t].pc # "idle" /\ Answers(t, "update", 404)) => (Leaves(t, "u_get") /\ users' = users)
    /\ (uth[t].pc # "idle" /\ Answers(t, "update", 200)) =>
         /\ Leaves(t, "u_update")
         /\ \E old \in users :
              /\ old.id = uth[t].user_id
              /\ users' = (users \ {old}) \cup {User(old.id, uth[t].data.name, uth[t].data.email, old.password)}
              /\ uout'.resp.id = old.id /\ uout'.resp.name = uth[t].data.name /\ uout'.resp.email = uth[t].data.email

\* C15: a PUT /user/<id> answered 200 sets the name and the email of the row
\* with that id to the submitted values and leaves that row's id and hash and
\* every other row as they were; a PUT whose id has no row when the handler
\* looks it up answers 404, and a PUT answered 404 changes nothing.
C15_PutFrame == [][C15_PutSteps]_vars

C15_Witness == uout.req = "update" /\ uout.resp.status = 200 /\ Cardinality(users) = 2 /\ \E u, v \in users : u.id = uout.user_id /\ u.name = Bo /\ u.password = hash_password(Other) /\ v.id # u.id /\ v.name = Al /\ v.email # u.email

C16_CreateSteps ==
  \A t \in Threads :
    /\ Leaves(t, "c_check") => (~EmailHeld(uth[t].data.email) <=> uth'[t].pc = "c_insert")
    /\ uth[t].pc = "c_insert" => ENABLED CreateInsert(t)
    /\ Leaves(t, "c_insert") =>
         /\ uth'[t].pc = "c_select"
         /\ Cardinality(users') = Cardinality(users) + 1
         /\ \E v \in users' \ users : v.email = uth[t].data.email /\ v.id = uth'[t].ins
    /\ Leaves(t, "c_select") => (Answers(t, "create", 201) /\ created' = created \cup {uth[t].ins})

\* C16: a POST /users that found no row with its email at the existence
\* check inserts its row and answers 201 whatever was inserted in between, so
\* two concurrent requests with the same unregistered email that both pass
\* the check before either inserts both answer 201 and leave two rows with
\* that email.
C16_CheckThenAct == [][C16_CreateSteps]_vars

C16_Witness == \E u, v \in users : u.id # v.id /\ u.email = v.email /\ {u.id, v.id} \subseteq created /\ \A t \in Threads : uth[t].pc = "idle"

\* C19: with a database that executes every statement and JSON-object
\* bodies, no interleaving of user-API requests makes a handler answer 500;
\* every request answers 200 or 201, or the 400, 404 or 409 of its situation.
C19_Never500 == uout.req # "none" => uout.resp.status \in {200, 201, 400, 401, 404, 409}

(* ------------------------ URL shortener, concurrent -------------------- *)
C17_RedirectSteps ==
  \A t \in Threads :
    (th[t].req = "redirect" /\ th[t].pc = "inc_write" /\ th'[t].pc # "inc_write") =>
      \E r \in Refs :
        /\ heap[r].original_url = heap[th[t].hmap].original_url
        /\ heap' = [heap EXCEPT ![r].clicks = heap[r].clicks + 1]

\* C17: in every interleaving of GET /<code> with concurrent POST /api/shorten
\* requests, a GET that answers 302 to a URL u adds exactly one to the clicks
\* of the record it read, whose original_url is u, and to no other record.
C17_ClickOnServed == [][C17_RedirectSteps]_vars

(* ------------------------------ progress ------------------------------- *)
LockHeldInside == \A t \in Threads : (lock = t) <=> (th[t].pc \in CriticalPcs)
NoDeadlock == (\E t \in Threads : InFlight(t)) => \E t \in Threads : ENABLED Step(t)

\* C18: no store operation suspends indefinitely. The lock is held only by a
\* thread inside a method body and is free once the method has returned on
\* any path, some thread can always take a step while an operation is in
\* flight, and with every thread scheduled fairly each started add_mapping,
\* get_mapping, increment_clicks and get_all_mappings returns.
C18_NoSuspension == [](LockHeldInside) /\ [](NoDeadlock) /\ \A t \in Threads : InFlight(t) ~> ~InFlight(t)

C18_Witness == \E t, u \in Threads : th[t].pc \in LockPcs /\ lock = u /\ u # t /\ th[u].req = "inc" /\ th[u].pc = "inc_unlock" /\ ~th[u].ok
====
